---- MODULE Spec2Model ----
(***************************************************************************)
(* The translation rendering pipeline of                                   *)
(* weblate/trans/templatetags/translations.py: format_translation and the  *)
(* stages fmt_diff, fmt_highlights, fmt_search and fmt_whitespace.         *)
(*                                                                         *)
(* A text is a sequence of one-character strings.  The record separator    *)
(* U+001E is the token RS.  Positions handed to Find and kept in cursors   *)
(* are 0-based, as in the Python source; SubSeq is 1-based.  An optional   *)
(* argument is None (the empty tuple) or Some(x) (a one-element tuple).    *)
(***************************************************************************)
EXTENDS Integers, Sequences, FiniteSets, TLC

\* ------------------------------------------------------------------------
\* Bounds of the model
\* ------------------------------------------------------------------------

\* Spec: the longest raw value
MaxValueLen == 3
\* SpecAlign: the longest raw value and the longest diff reference
MaxAlignLen == 4
MaxAlignDiffLen == 3
\* SpecHighlights: the longest raw value, the longest snippet and the
\* largest number of snippets
MaxHlLen == 3
MaxSnippetLen == 1
MaxSnippets == 3
\* SpecSearch: the longest raw value and the longest search term
MaxSearchLen == 3
MaxTermLen == 2
\* SpecWhitespace: the longest paragraph
MaxParaLen == 4
\* SpecStages: the longest raw value and reference form of fmt_diff
MaxDiffStageLen == 2
\* SpecLines: the longest raw value
MaxLinesLen == 3

\* ------------------------------------------------------------------------
\* Text primitives (Python str and re operations used by the source)
\* ------------------------------------------------------------------------

None == <<>>
Some(x) == <<x>>

RS == "RS"

StrsUpTo(A, n) == UNION {[1..k -> A] : k \in 0..n}

\* s[a:b] with 0 <= a <= b <= len(s)
Slice(s, a, b) == SubSeq(s, a + 1, b)

\* s[a:]
SliceFrom(s, a) == SubSeq(s, a + 1, Len(s))

SetMin(S) == CHOOSE x \in S : \A y \in S : x <= y

SetMax(S) == CHOOSE x \in S : \A y \in S : x >= y

\* str.find(sub, start): the lowest index >= start where sub occurs, or -1
Find(s, sub, start) ==
    LET at == {i \in start..(Len(s) - Len(sub)) : Slice(s, i, i + Len(sub)) = sub}
    IN  IF at = {} THEN -1 ELSE SetMin(at)

Contains(s, sub) == Find(s, sub, 0) >= 0

\* str.replace(old, new) for a non-empty old: every non-overlapping
\* occurrence, leftmost first
RECURSIVE Replace(_, _, _)
Replace(s, old, new) ==
    LET i == Find(s, old, 0)
    IN  IF i < 0 THEN s
        ELSE Slice(s, 0, i) \o new \o Replace(SliceFrom(s, i + Len(old)), old, new)

\* str.split(sep) for a non-empty sep
RECURSIVE Split(_, _)
Split(s, sep) ==
    LET i == Find(s, sep, 0)
    IN  IF i < 0 THEN <<s>>
        ELSE <<Slice(s, 0, i)>> \o Split(SliceFrom(s, i + Len(sep)), sep)

\* sep.join(items)
RECURSIVE Join(_, _)
Join(sep, items) ==
    IF items = <<>> THEN <<>>
    ELSE IF Len(items) = 1 THEN items[1]
    ELSE items[1] \o sep \o Join(sep, Tail(items))

Digits == <<"0", "1", "2", "3", "4", "5", "6", "7", "8", "9">>

DigitValue(c) == (CHOOSE n \in 1..10 : Digits[n] = c) - 1

\* str.format(*args) on the template t from the 0-based position pos: a
\* replacement field {} takes the next argument, a field {n} takes
\* argument n; arguments no field names are dropped
RECURSIVE FormatFrom(_, _, _, _)
FormatFrom(t, args, pos, auto) ==
    LET open == Find(t, <<"{">>, pos)
    IN  IF open < 0 THEN SliceFrom(t, pos)
        ELSE LET close == Find(t, <<"}">>, open)
                 field == Slice(t, open + 1, close)
                 n     == IF field = <<>> THEN auto ELSE DigitValue(field[1])
             IN  Slice(t, pos, open) \o args[n + 1]
                 \o FormatFrom(t, args, close + 1,
                               IF field = <<>> THEN auto + 1 ELSE auto)

Format(t, args) == FormatFrom(t, args, 0, 0)

UpperChars == <<"A","B","C","D","E","F","G","H","I","J","K","L","M","N","O","P","Q","R","S","T","U","V","W","X","Y","Z">>
LowerChars == <<"a","b","c","d","e","f","g","h","i","j","k","l","m","n","o","p","q","r","s","t","u","v","w","x","y","z">>

\* The case folding re.IGNORECASE compares with
Lower(c) ==
    IF \E i \in 1..26 : UpperChars[i] = c
    THEN LowerChars[CHOOSE i \in 1..26 : UpperChars[i] = c]
    ELSE c

LowerStr(s) == [i \in 1..Len(s) |-> Lower(s[i])]

\* django.utils.html.escape: the five HTML-sensitive characters
EscapeChar(c) ==
    CASE c = "&"  -> <<"&","a","m","p",";">>
      [] c = "<"  -> <<"&","l","t",";">>
      [] c = ">"  -> <<"&","g","t",";">>
      [] c = "\"" -> <<"&","q","u","o","t",";">>
      [] c = "'"  -> <<"&","#","3","9",";">>
      [] OTHER    -> <<c>>

RECURSIVE Escape(_)
Escape(s) == IF s = <<>> THEN <<>> ELSE EscapeChar(Head(s)) \o Escape(Tail(s))

\* ugettext under the source language: the message itself
Ugettext(msgid) == msgid

\* ------------------------------------------------------------------------
\* Module constants of translations.py
\* ------------------------------------------------------------------------

HIGHLIGTH_SPACE == <<"<","s","p","a","n"," ","c","l","a","s","s","=","\"","h","l","s","p","a","c","e","\"",">","{","}","<","/","s","p","a","n",">","{","}">>
SPACE_TEMPLATE == <<"<","s","p","a","n"," ","c","l","a","s","s","=","\"","{","}","\"",">","<","s","p","a","n"," ","c","l","a","s","s","=","\"","s","r","-","o","n","l","y","\"",">","{","}","<","/","s","p","a","n",">","<","/","s","p","a","n",">">>
SPACE_SPACE == Format(SPACE_TEMPLATE, <<<<"s","p","a","c","e","-","s","p","a","c","e">>, <<" ">>>>)
SPACE_NL == Format(HIGHLIGTH_SPACE, <<Format(SPACE_TEMPLATE, <<<<"s","p","a","c","e","-","n","l">>, <<>>>>), <<"<","b","r"," ","/",">">>>>)
SPACE_TAB == Format(HIGHLIGTH_SPACE, <<Format(SPACE_TEMPLATE, <<<<"s","p","a","c","e","-","t","a","b">>, <<"\t">>>>), <<>>>>)
HL_CHECK == <<"<","s","p","a","n"," ","c","l","a","s","s","=","\"","h","l","c","h","e","c","k","\"",">","<","s","p","a","n"," ","c","l","a","s","s","=","\"","h","i","g","h","l","i","g","h","t","-","n","u","m","b","e","r","\"",">","<","/","s","p","a","n",">","{","0","}","<","/","s","p","a","n",">">>

\* ------------------------------------------------------------------------
\* fmt_whitespace
\* ------------------------------------------------------------------------

\* The number of consecutive spaces of s from the 0-based position pos
RECURSIVE RunLen(_, _)
RunLen(s, pos) ==
    IF pos < Len(s) /\ s[pos + 1] = " " THEN 1 + RunLen(s, pos + 1) ELSE 0

\* "$" without re.MULTILINE: the end of the string, or just before a final
\* line feed
AtDollar(s, pos) == pos = Len(s) \/ (pos = Len(s) - 1 /\ s[Len(s)] = "\n")

\* WhitespaceMatchLen without the last alternative, "^ "
WhitespaceMatchLen_NoLeading(s, pos) ==
    IF RunLen(s, pos) >= 2 THEN RunLen(s, pos)
    ELSE IF RunLen(s, pos) = 1 /\ AtDollar(s, pos + 1) THEN 1
    ELSE 0

\* The length of the match of WHITESPACE_RE = (  +| $|^ ) at pos, its
\* alternatives tried in order; 0 when none matches
WhitespaceMatchLen(s, pos) ==
    IF RunLen(s, pos) >= 2 THEN RunLen(s, pos)
    ELSE IF RunLen(s, pos) = 1 /\ AtDollar(s, pos + 1) THEN 1
    ELSE IF pos = 0 /\ RunLen(s, pos) = 1 THEN 1
    ELSE 0

replace_whitespace(group1) ==
    LET spaces == Replace(group1, <<" ">>, SPACE_SPACE)
    IN  Format(HIGHLIGTH_SPACE, <<spaces, <<>>>>)

\* WHITESPACE_RE.sub(replace_whitespace, value), scanning from pos: the
\* leftmost match at or after pos is replaced and the scan goes on behind it
RECURSIVE WhitespaceSub(_, _)
WhitespaceSub(s, pos) ==
    LET at == {p \in pos..(Len(s) - 1) : WhitespaceMatchLen(s, p) > 0}
    IN  IF at = {} THEN SliceFrom(s, pos)
        ELSE LET m == SetMin(at)
                 n == WhitespaceMatchLen(s, m)
             IN  Slice(s, pos, m) \o replace_whitespace(Slice(s, m, m + n))
                 \o WhitespaceSub(s, m + n)

fmt_whitespace(v) ==
    LET spaced == WhitespaceSub(v, 0)
    IN  Replace(spaced, <<"\t">>, Format(SPACE_TAB, <<Ugettext(<<"T","a","b"," ","c","h","a","r","a","c","t","e","r">>)>>))

\* ------------------------------------------------------------------------
\* fmt_diff
\* ------------------------------------------------------------------------

CommonPrefixLen(a, b) ==
    SetMax({p \in 0..(IF Len(a) < Len(b) THEN Len(a) ELSE Len(b)) :
                Slice(a, 0, p) = Slice(b, 0, p)})

Reverse(s) == [i \in 1..Len(s) |-> s[Len(s) + 1 - i]]

\* weblate.trans.simplediff.html_diff: the text common to both ends kept,
\* the old middle inside <del>, the new middle inside <ins>
html_diff(old, new) ==
    LET p    == CommonPrefixLen(old, new)
        oldr == SliceFrom(old, p)
        newr == SliceFrom(new, p)
        q    == CommonPrefixLen(Reverse(oldr), Reverse(newr))
        del  == Slice(oldr, 0, Len(oldr) - q)
        ins  == Slice(newr, 0, Len(newr) - q)
    IN  Slice(new, 0, p)
        \o (IF del = <<>> THEN <<>> ELSE <<"<","d","e","l",">">> \o del \o <<"<","/","d","e","l",">">>)
        \o (IF ins = <<>> THEN <<>> ELSE <<"<","i","n","s",">">> \o ins \o <<"<","/","i","n","s",">">>)
        \o SliceFrom(newr, Len(newr) - q)

\* diff is None or Some(the list of reference forms)
fmt_diff(v, d, idx) ==
    IF d = None THEN v
    ELSE html_diff(Escape(d[1][idx + 1]), v)

\* ------------------------------------------------------------------------
\* fmt_highlights
\* ------------------------------------------------------------------------

\* weblate.checks.highlight_string: the ordered snippets the checks of the
\* unit flag in raw_value.  A unit is modelled by the ordered snippets its
\* checks look for; the ones that occur in raw_value are flagged
highlight_string(raw_value, u) ==
    LET Flagged(snippet) == Contains(raw_value, snippet)
    IN  SelectSeq(u, Flagged)

\* HighlightStep with the cursor moved past the snippet only, not past the
\* marker inserted around it
HighlightStep_ShortCursor(v, start, highlight) ==
    LET htext          == Escape(highlight)
        find_highlight == Find(v, htext, start)
        newpart        == Format(HL_CHECK, <<htext>>)
        next_part      == SliceFrom(v, find_highlight + Len(htext))
    IN  IF find_highlight >= 0
        THEN [value        |-> Slice(v, 0, find_highlight) \o newpart \o next_part,
              start_search |-> find_highlight + Len(htext),
              found        |-> TRUE,
              at           |-> find_highlight]
        ELSE [value |-> v, start_search |-> start, found |-> FALSE, at |-> -1]

\* HighlightStep searching again from the start of the value when the
\* snippet is not found from the cursor on
HighlightStep_Retry(v, start, highlight) ==
    LET htext          == Escape(highlight)
        from_cursor    == Find(v, htext, start)
        find_highlight == IF from_cursor >= 0 THEN from_cursor ELSE Find(v, htext, 0)
        newpart        == Format(HL_CHECK, <<htext>>)
        next_part      == SliceFrom(v, find_highlight + Len(htext))
    IN  IF find_highlight >= 0
        THEN [value        |-> Slice(v, 0, find_highlight) \o newpart \o next_part,
              start_search |-> find_highlight + Len(newpart),
              found        |-> TRUE,
              at           |-> find_highlight]
        ELSE [value |-> v, start_search |-> start, found |-> FALSE, at |-> -1]

\* One iteration of the loop over the highlights: the value and the cursor
\* after it, whether the snippet was found, and where
HighlightStep(v, start, highlight) ==
    LET htext          == Escape(highlight)
        find_highlight == Find(v, htext, start)
        newpart        == Format(HL_CHECK, <<htext>>)
        next_part      == SliceFrom(v, find_highlight + Len(htext))
    IN  IF find_highlight >= 0
        THEN [value        |-> Slice(v, 0, find_highlight) \o newpart \o next_part,
              start_search |-> find_highlight + Len(newpart),
              found        |-> TRUE,
              at           |-> find_highlight]
        ELSE [value |-> v, start_search |-> start, found |-> FALSE, at |-> -1]

RECURSIVE HighlightLoop(_, _, _)
HighlightLoop(v, start, highlights) ==
    IF highlights = <<>> THEN v
    ELSE LET r == HighlightStep(v, start, Head(highlights))
         IN  HighlightLoop(r.value, r.start_search, Tail(highlights))

\* unit is None or Some(u)
fmt_highlights(raw_value, v, u) ==
    IF u = None THEN v
    ELSE HighlightLoop(v, 0, highlight_string(raw_value, u[1]))

\* ------------------------------------------------------------------------
\* fmt_search
\* ------------------------------------------------------------------------

MODE_SEARCH == <<"s","e","a","r","c","h">>
MODE_REPLACEMENT == <<"r","e","p","l","a","c","e","m","e","n","t">>
MODE_REPLACED == <<"r","e","p","l","a","c","e","d">>

HLMATCH_REPL == <<"<","s","p","a","n"," ","c","l","a","s","s","=","\"","h","l","m","a","t","c","h","\"",">","\\","1","<","/","s","p","a","n",">">>
MODE_TEMPLATE == <<"<","s","p","a","n"," ","c","l","a","s","s","=","\"","{","0","}","\"",">","{","1","}","<","/","s","p","a","n",">">>

\* FindIgnoreCase comparing with exact case, re.IGNORECASE left out
FindIgnoreCase_Exact(s, pattern, start) ==
    LET at == {i \in start..(Len(s) - Len(pattern)) :
                   Slice(s, i, i + Len(pattern)) = pattern}
    IN  IF at = {} THEN -1 ELSE SetMin(at)

\* The lowest index >= start where pattern matches s ignoring case, or -1
FindIgnoreCase(s, pattern, start) ==
    LET at == {i \in start..(Len(s) - Len(pattern)) :
                   LowerStr(Slice(s, i, i + Len(pattern))) = LowerStr(pattern)}
    IN  IF at = {} THEN -1 ELSE SetMin(at)

\* ReSubIgnoreCase with the term itself put for \1, not the text matched
RECURSIVE ReSubIgnoreCase_TermText(_, _, _)
ReSubIgnoreCase_TermText(s, term, repl) ==
    LET i == FindIgnoreCase(s, term, 0)
    IN  IF i < 0 THEN s
        ELSE Slice(s, 0, i)
             \o Replace(repl, <<"\\", "1">>, term)
             \o ReSubIgnoreCase_TermText(SliceFrom(s, i + Len(term)), term, repl)

\* re.sub("(" + re.escape(term) + ")", repl, s, flags=re.IGNORECASE) for a
\* non-empty term: the pattern is the literal term, and \1 in repl stands
\* for the text matched
RECURSIVE ReSubIgnoreCase(_, _, _)
ReSubIgnoreCase(s, term, repl) ==
    LET i == FindIgnoreCase(s, term, 0)
    IN  IF i < 0 THEN s
        ELSE Slice(s, 0, i)
             \o Replace(repl, <<"\\", "1">>, Slice(s, i, i + Len(term)))
             \o ReSubIgnoreCase(SliceFrom(s, i + Len(term)), term, repl)

\* fmt_search testing "search_match is not None" instead of its truth: an
\* empty term is searched for, and matches before every character and at
\* the end
fmt_search_NotNone(v, sm, m) ==
    IF sm # None
    THEN LET term == Escape(sm[1])
             around == <<<<>>>> \o [i \in 1..Len(v) |-> <<v[i]>>] \o <<<<>>>>
         IN  IF m = MODE_SEARCH
             THEN (IF term = <<>>
                   THEN Join(Replace(HLMATCH_REPL, <<"\\", "1">>, <<>>), around)
                   ELSE ReSubIgnoreCase(v, term, HLMATCH_REPL))
             ELSE IF m \in {MODE_REPLACEMENT, MODE_REPLACED}
             THEN (IF term = <<>>
                   THEN Join(Format(MODE_TEMPLATE, <<m, term>>), around)
                   ELSE Replace(v, term, Format(MODE_TEMPLATE, <<m, term>>)))
             ELSE v
    ELSE v

\* search_match is None or Some(term); "if search_match" holds for a
\* non-empty term
fmt_search(v, sm, m) ==
    IF sm # None /\ sm[1] # <<>>
    THEN LET term == Escape(sm[1])
         IN  IF m = MODE_SEARCH
             THEN ReSubIgnoreCase(v, term, HLMATCH_REPL)
             ELSE IF m \in {MODE_REPLACEMENT, MODE_REPLACED}
             THEN Replace(v, term, Format(MODE_TEMPLATE, <<m, term>>))
             ELSE v
    ELSE v

\* ------------------------------------------------------------------------
\* format_translation
\* ------------------------------------------------------------------------

\* weblate.trans.util.split_plural: the forms of a text, separated by two
\* record separators
split_plural(text) == Split(text, <<RS, RS>>)

\* Plural.get_plural_name: the label of the plural form idx
get_plural_name(idx) == <<"plural-name", idx>>

\* NewlineMatchLen without the alternative \r\n: NEWLINES_RE = \r|\n
NewlineMatchLen_NoCRLF(s, pos) ==
    IF s[pos + 1] = "\r" \/ s[pos + 1] = "\n" THEN 1 ELSE 0

\* NEWLINES_RE.sub("\n", value) with NEWLINES_RE = \r\n|\r|\n
\* The length of the match of NEWLINES_RE at the 0-based position pos,
\* its alternatives tried in order; 0 when none matches
NewlineMatchLen(s, pos) ==
    IF pos + 2 <= Len(s) /\ s[pos + 1] = "\r" /\ s[pos + 2] = "\n" THEN 2
    ELSE IF s[pos + 1] = "\r" \/ s[pos + 1] = "\n" THEN 1
    ELSE 0

RECURSIVE NewlinesSub(_)
NewlinesSub(s) ==
    LET at == {p \in 0..(Len(s) - 1) : NewlineMatchLen(s, p) > 0}
    IN  IF at = {} THEN s
        ELSE LET m == SetMin(at)
             IN  Slice(s, 0, m) \o <<"\n">>
                 \o NewlinesSub(SliceFrom(s, m + NewlineMatchLen(s, m)))

\* SPACE_NL.format(ugettext("New line"))
NewlineConcatenator == Format(SPACE_NL, <<Ugettext(<<"N","e","w"," ","l","i","n","e">>)>>)

\* RenderPart with the copy taken after the diff stage
RenderPart_CopyAfterDiff(idx, raw_value, n, d, sm, m, u, nl) ==
    LET escaped == Escape(raw_value)
        diffed  == fmt_diff(escaped, d, idx)
        copy    == diffed
        checked == fmt_highlights(raw_value, diffed, u)
        found   == fmt_search(checked, sm, m)
        paras   == Split(NewlinesSub(found), <<"\n">>)
        shown   == [i \in 1..Len(paras) |-> fmt_whitespace(paras[i])]
        title   == IF n > 1 THEN get_plural_name(idx) ELSE <<>>
    IN  [title |-> title, content |-> Join(nl, shown), copy |-> copy]

\* The body of the loop over the plural forms: the part of form idx.
\* n is the number of forms retained, d is None or Some(reference forms)
RenderPart(idx, raw_value, n, d, sm, m, u, nl) ==
    LET escaped == Escape(raw_value)
        copy    == escaped
        diffed  == fmt_diff(escaped, d, idx)
        checked == fmt_highlights(raw_value, diffed, u)
        found   == fmt_search(checked, sm, m)
        paras   == Split(NewlinesSub(found), <<"\n">>)
        shown   == [i \in 1..Len(paras) |-> fmt_whitespace(paras[i])]
        title   == IF n > 1 THEN get_plural_name(idx) ELSE <<>>
    IN  [title |-> title, content |-> Join(nl, shown), copy |-> copy]

\* plurals[-1:]
LastOnly(forms) == IF forms = <<>> THEN <<>> ELSE <<forms[Len(forms)]>>

\* RetainedForms keeping the first form, plurals[:1], instead of the last
RetainedForms_KeepFirst(v, n) ==
    IF n <= 1 THEN <<split_plural(v)[1]>> ELSE split_plural(v)

\* Lines 176-183: the forms of the value that are rendered
RetainedForms(v, n) ==
    IF n <= 1 THEN LastOnly(split_plural(v)) ELSE split_plural(v)

\* ------------------------------------------------------------------------
\* State
\* ------------------------------------------------------------------------

VARIABLES
    \* a call of format_translation
    value,          \* argument: the raw value
    diff,           \* argument: None or Some(raw reference)
    search_match,   \* argument: None or Some(term)
    match,          \* argument: the search mode
    num_plurals,    \* argument
    unit,           \* argument: None or Some(unit)
    plurals,        \* the forms being rendered
    diff_forms,     \* the reference forms, once diff is split
    newline,        \* the newline concatenator
    parts,          \* the parts collected so far
    pc,             \* the position in format_translation
    \* a call of fmt_highlights
    hl_raw_value,   \* argument raw_value
    hl_unit,        \* argument unit: None or Some(unit)
    hl_value,       \* argument value, rewritten by the loop
    highlights,     \* the highlights the loop has still to visit
    start_search,   \* the search cursor
    hl_input,       \* history: the value as passed in
    hl_log,         \* history: per visited highlight, its text and where
                    \* it was found (-1: not found)
    hl_pc,
    \* a call of fmt_search
    fs_value, fs_search_match, fs_match, fs_result, fs_pc,
    \* a call of fmt_whitespace
    ws_value, ws_result, ws_pc,
    \* a call of fmt_diff
    df_value, df_diff, df_idx, df_result, df_pc

args == <<value, diff, search_match, match, num_plurals, unit>>
ft_vars == <<args, plurals, diff_forms, newline, parts, pc>>
hl_vars == <<hl_raw_value, hl_unit, hl_value, highlights, start_search,
             hl_input, hl_log, hl_pc>>
fs_vars == <<fs_value, fs_search_match, fs_match, fs_result, fs_pc>>
ws_vars == <<ws_value, ws_result, ws_pc>>
df_vars == <<df_value, df_diff, df_idx, df_result, df_pc>>
vars == <<ft_vars, hl_vars, fs_vars, ws_vars, df_vars>>

\* No call of the function is in progress
FtIdle ==
    /\ value = <<>> /\ diff = None /\ search_match = None /\ match = MODE_SEARCH
    /\ num_plurals = 2 /\ unit = None /\ plurals = <<>> /\ diff_forms = <<>>
    /\ newline = <<>> /\ parts = <<>> /\ pc = "idle"

HlIdle ==
    /\ hl_raw_value = <<>> /\ hl_unit = None /\ hl_value = <<>>
    /\ highlights = <<>> /\ start_search = 0 /\ hl_input = <<>>
    /\ hl_log = <<>> /\ hl_pc = "idle"

FsIdle ==
    /\ fs_value = <<>> /\ fs_search_match = None /\ fs_match = MODE_SEARCH
    /\ fs_result = <<>> /\ fs_pc = "idle"

WsIdle == ws_value = <<>> /\ ws_result = <<>> /\ ws_pc = "idle"

DfIdle ==
    /\ df_value = <<>> /\ df_diff = None /\ df_idx = 0 /\ df_result = <<>>
    /\ df_pc = "idle"

\* ------------------------------------------------------------------------
\* format_translation: Spec and SpecAlign
\* ------------------------------------------------------------------------

ValueAlphabet == {"a", "&", "<", "\n", RS}
RawValues == StrsUpTo(ValueAlphabet, MaxValueLen)
DiffRefs == {None, Some(<<>>), Some(<<"a">>), Some(<<"a", RS, RS>>)}
SearchTerms == {None, Some(<<"a">>)}
Modes == {MODE_SEARCH, MODE_REPLACED}
NumPlurals == {1, 2}
Units == {None, Some(<<<<"a">>>>)}

FtStart ==
    /\ plurals = <<>> /\ diff_forms = <<>> /\ newline = <<>> /\ parts = <<>>
    /\ pc = "begin"
    /\ HlIdle /\ FsIdle /\ WsIdle /\ DfIdle

Init ==
    /\ value \in RawValues
    /\ diff \in DiffRefs
    /\ search_match \in SearchTerms
    /\ match \in Modes
    /\ num_plurals \in NumPlurals
    /\ unit \in Units
    /\ FtStart

\* Values and references of several plural forms, no unit and no search
AlignAlphabet == {"a", RS}

AlignInit ==
    /\ value \in StrsUpTo(AlignAlphabet, MaxAlignLen)
    /\ diff \in {None} \cup {Some(d) : d \in StrsUpTo(AlignAlphabet, MaxAlignDiffLen)}
    /\ search_match = None
    /\ match = MODE_SEARCH
    /\ num_plurals \in NumPlurals
    /\ unit = None
    /\ FtStart

\* Lines 176-189: split the value, keep the last form when plurals are not
\* shown, build the newline concatenator
Begin ==
    /\ pc = "begin"
    /\ plurals' = RetainedForms(value, num_plurals)
    /\ newline' = NewlineConcatenator
    /\ pc' = IF diff = None THEN "render" ELSE "split_diff"
    /\ UNCHANGED <<args, diff_forms, parts, hl_vars, fs_vars, ws_vars, df_vars>>

\* Line 190
SplitDiff ==
    /\ pc = "split_diff"
    /\ diff_forms' = split_plural(diff[1])
    /\ pc' = "pad"
    /\ UNCHANGED <<args, plurals, newline, parts, hl_vars, fs_vars, ws_vars, df_vars>>

\* PadOnce appending the last form, diff[-1], instead of the first
PadOnce_Last(forms) == Append(forms, forms[Len(forms)])

\* Line 193: the list of reference forms with its first form appended
PadOnce(forms) == Append(forms, forms[1])

\* Lines 192-193, one iteration
PadDiff ==
    /\ pc = "pad"
    /\ Len(diff_forms) < Len(plurals)
    /\ diff_forms' = PadOnce(diff_forms)
    /\ UNCHANGED <<args, plurals, newline, parts, pc, hl_vars, fs_vars, ws_vars, df_vars>>

\* Line 192, the loop condition fails
PadExit ==
    /\ pc = "pad"
    /\ ~(Len(diff_forms) < Len(plurals))
    /\ pc' = "render"
    /\ UNCHANGED <<args, plurals, diff_forms, newline, parts, hl_vars, fs_vars, ws_vars, df_vars>>

\* Lines 198-231, one iteration
RenderForm ==
    /\ pc = "render"
    /\ Len(parts) < Len(plurals)
    /\ LET idx == Len(parts)
       IN  parts' = Append(parts,
                RenderPart(idx, plurals[idx + 1], Len(plurals),
                           IF diff = None THEN None ELSE Some(diff_forms),
                           search_match, match, unit, newline))
    /\ UNCHANGED <<args, plurals, diff_forms, newline, pc, hl_vars, fs_vars, ws_vars, df_vars>>

\* Line 233
Return ==
    /\ pc = "render"
    /\ Len(parts) = Len(plurals)
    /\ pc' = "done"
    /\ UNCHANGED <<args, plurals, diff_forms, newline, parts, hl_vars, fs_vars, ws_vars, df_vars>>

Next == Begin \/ SplitDiff \/ PadDiff \/ PadExit \/ RenderForm \/ Return

Spec == Init /\ [][Next]_vars

SpecAlign == AlignInit /\ [][Next]_vars

\* Values with line separators of the three kinds, with and without a
\* reference, searched or not
LinesAlphabet == {"a", " ", "\r", "\n", RS}
LinesSearchTerms == {None, Some(<<"a">>), Some(<<"\r">>)}

LinesInit ==
    /\ value \in StrsUpTo(LinesAlphabet, MaxLinesLen)
    /\ diff \in {None, Some(<<"a">>)}
    /\ search_match \in LinesSearchTerms
    /\ match \in Modes
    /\ num_plurals \in NumPlurals
    /\ unit = None
    /\ FtStart

SpecLines == LinesInit /\ [][Next]_vars

\* ------------------------------------------------------------------------
\* fmt_highlights: SpecHighlights
\* ------------------------------------------------------------------------

HlAlphabet == {"a", "&"}
HlSnippets == StrsUpTo(HlAlphabet, MaxSnippetLen) \ {<<>>}
HlUnits == {None} \cup {Some(u) : u \in StrsUpTo(HlSnippets, MaxSnippets)}

\* The value is the escaped raw value, or its diff with the reference "a"
HlInit ==
    /\ hl_raw_value \in StrsUpTo(HlAlphabet, MaxHlLen)
    /\ hl_unit \in HlUnits
    /\ \E d \in {None, Some(<<<<"a">>>>)} :
            hl_value = fmt_diff(Escape(hl_raw_value), d, 0)
    /\ hl_input = hl_value
    /\ highlights = <<>>
    /\ start_search = 0
    /\ hl_log = <<>>
    /\ hl_pc = "call"
    /\ FtIdle /\ FsIdle /\ WsIdle /\ DfIdle

\* Lines 127-128
HlNoUnit ==
    /\ hl_pc = "call"
    /\ hl_unit = None
    /\ hl_pc' = "done"
    /\ UNCHANGED <<hl_raw_value, hl_unit, hl_value, highlights, start_search,
                   hl_input, hl_log, ft_vars, fs_vars, ws_vars, df_vars>>

\* Lines 129-130
HlLookup ==
    /\ hl_pc = "call"
    /\ hl_unit # None
    /\ highlights' = highlight_string(hl_raw_value, hl_unit[1])
    /\ start_search' = 0
    /\ hl_pc' = "loop"
    /\ UNCHANGED <<hl_raw_value, hl_unit, hl_value, hl_input, hl_log,
                   ft_vars, fs_vars, ws_vars, df_vars>>

\* Lines 131-138, one iteration
HlIterate ==
    /\ hl_pc = "loop"
    /\ highlights # <<>>
    /\ LET r == HighlightStep(hl_value, start_search, Head(highlights))
       IN  /\ hl_value' = r.value
           /\ start_search' = r.start_search
           /\ hl_log' = Append(hl_log, [text |-> Head(highlights), at |-> r.at])
    /\ highlights' = Tail(highlights)
    /\ UNCHANGED <<hl_raw_value, hl_unit, hl_input, hl_pc, ft_vars, fs_vars, ws_vars, df_vars>>

\* Line 139
HlReturn ==
    /\ hl_pc = "loop"
    /\ highlights = <<>>
    /\ hl_pc' = "done"
    /\ UNCHANGED <<hl_raw_value, hl_unit, hl_value, highlights, start_search,
                   hl_input, hl_log, ft_vars, fs_vars, ws_vars, df_vars>>

HlNext == HlNoUnit \/ HlLookup \/ HlIterate \/ HlReturn

SpecHighlights == HlInit /\ [][HlNext]_vars

\* ------------------------------------------------------------------------
\* fmt_search: SpecSearch
\* ------------------------------------------------------------------------

FsAlphabet == {"a", "A", "&"}
FsModes == {MODE_SEARCH, MODE_REPLACEMENT, MODE_REPLACED, <<"o","t","h","e","r">>}

FsInit ==
    /\ \E raw \in StrsUpTo(FsAlphabet, MaxSearchLen) : fs_value = Escape(raw)
    /\ fs_search_match \in {None} \cup {Some(t) : t \in StrsUpTo(FsAlphabet, MaxTermLen)}
    /\ fs_match \in FsModes
    /\ fs_result = <<>>
    /\ fs_pc = "call"
    /\ FtIdle /\ HlIdle /\ WsIdle /\ DfIdle

\* Lines 142-159
FsCall ==
    /\ fs_pc = "call"
    /\ fs_result' = fmt_search(fs_value, fs_search_match, fs_match)
    /\ fs_pc' = "done"
    /\ UNCHANGED <<fs_value, fs_search_match, fs_match, ft_vars, hl_vars, ws_vars, df_vars>>

FsNext == FsCall

SpecSearch == FsInit /\ [][FsNext]_vars

\* ------------------------------------------------------------------------
\* fmt_whitespace: SpecWhitespace
\* ------------------------------------------------------------------------

WsAlphabet == {"a", "b", " ", "\t"}

WsInit ==
    /\ ws_value \in StrsUpTo(WsAlphabet, MaxParaLen)
    /\ ws_result = <<>>
    /\ ws_pc = "call"
    /\ FtIdle /\ HlIdle /\ FsIdle /\ DfIdle

\* Lines 106-114
WsCall ==
    /\ ws_pc = "call"
    /\ ws_result' = fmt_whitespace(ws_value)
    /\ ws_pc' = "done"
    /\ UNCHANGED <<ws_value, ft_vars, hl_vars, fs_vars, df_vars>>

WsNext == WsCall

SpecWhitespace == WsInit /\ [][WsNext]_vars

\* ------------------------------------------------------------------------
\* fmt_diff, and the three annotation stages together: SpecStages
\* ------------------------------------------------------------------------

DfAlphabet == {"a", "&"}

\* The value is an escaped raw value; the reference, when there is one, has
\* one or two forms
DfInit ==
    /\ \E raw \in StrsUpTo(DfAlphabet, MaxDiffStageLen) : df_value = Escape(raw)
    /\ \E refs \in StrsUpTo(StrsUpTo(DfAlphabet, MaxDiffStageLen), 2) \ {<<>>} :
            df_diff \in {None, Some(refs)}
    /\ df_idx \in 0..1
    /\ df_diff # None => df_idx < Len(df_diff[1])
    /\ df_result = <<>>
    /\ df_pc = "call"
    /\ FtIdle /\ HlIdle /\ FsIdle /\ WsIdle

\* Lines 117-122
DfCall ==
    /\ df_pc = "call"
    /\ df_result' = fmt_diff(df_value, df_diff, df_idx)
    /\ df_pc' = "done"
    /\ UNCHANGED <<df_value, df_diff, df_idx, ft_vars, hl_vars, fs_vars, ws_vars>>

\* A call of one of fmt_diff, fmt_highlights and fmt_search
StagesInit == DfInit \/ HlInit \/ FsInit

StagesNext == DfCall \/ HlNoUnit \/ HlLookup \/ HlIterate \/ HlReturn \/ FsCall

SpecStages == StagesInit /\ [][StagesNext]_vars

\* ------------------------------------------------------------------------
\* Properties: vocabulary
\* ------------------------------------------------------------------------

\* The inverse of escaping: each entity back to its character, &amp; last
Unescape(s) ==
    Replace(Replace(Replace(Replace(Replace(s,
        <<"&","l","t",";">>, <<"<">>), <<"&","g","t",";">>, <<">">>), <<"&","q","u","o","t",";">>, <<"\"">>), <<"&","#","3","9",";">>, <<"'">>), <<"&","a","m","p",";">>, <<"&">>)

Entities == {<<"&","a","m","p",";">>, <<"&","l","t",";">>, <<"&","g","t",";">>, <<"&","q","u","o","t",";">>, <<"&","#","3","9",";">>}

\* Every tag a stage of the pipeline writes
MarkerTags ==
    {<<"<","s","p","a","n"," ","c","l","a","s","s","=","\"","h","l","c","h","e","c","k","\"",">">>, <<"<","s","p","a","n"," ","c","l","a","s","s","=","\"","h","i","g","h","l","i","g","h","t","-","n","u","m","b","e","r","\"",">">>,
     <<"<","s","p","a","n"," ","c","l","a","s","s","=","\"","h","l","m","a","t","c","h","\"",">">>, <<"<","s","p","a","n"," ","c","l","a","s","s","=","\"","r","e","p","l","a","c","e","m","e","n","t","\"",">">>,
     <<"<","s","p","a","n"," ","c","l","a","s","s","=","\"","r","e","p","l","a","c","e","d","\"",">">>, <<"<","s","p","a","n"," ","c","l","a","s","s","=","\"","h","l","s","p","a","c","e","\"",">">>,
     <<"<","s","p","a","n"," ","c","l","a","s","s","=","\"","s","p","a","c","e","-","s","p","a","c","e","\"",">">>, <<"<","s","p","a","n"," ","c","l","a","s","s","=","\"","s","p","a","c","e","-","n","l","\"",">">>,
     <<"<","s","p","a","n"," ","c","l","a","s","s","=","\"","s","p","a","c","e","-","t","a","b","\"",">">>, <<"<","s","p","a","n"," ","c","l","a","s","s","=","\"","s","r","-","o","n","l","y","\"",">">>, <<"<","/","s","p","a","n",">">>,
     <<"<","b","r"," ","/",">">>, <<"<","i","n","s",">">>, <<"<","/","i","n","s",">">>, <<"<","d","e","l",">">>, <<"<","/","d","e","l",">">>}

StartsAt(s, i, t) == i + Len(t) - 1 <= Len(s) /\ SubSeq(s, i, i + Len(t) - 1) = t

\* The number of positions of s where t starts
Occurrences(s, t) == Cardinality({i \in 1..Len(s) : StartsAt(s, i, t)})

\* Every "<" of s opens a whole marker tag, and the spans are balanced
WellFormedMarkup(s) ==
    /\ \A i \in 1..Len(s) : s[i] = "<" => \E t \in MarkerTags : StartsAt(s, i, t)
    /\ Occurrences(s, <<"<","s","p","a","n"," ">>) = Occurrences(s, <<"<","/","s","p","a","n",">">>)

\* Every "&" of s opens a whole entity
EntitiesIntact(s) ==
    \A i \in 1..Len(s) : s[i] = "&" => \E e \in Entities : StartsAt(s, i, e)

\* ------------------------------------------------------------------------
\* Properties of format_translation
\* ------------------------------------------------------------------------

\* C1: the copy of every part is the escaped text of its raw plural form,
\* escaped once (unescaping it once gives the raw form back); it holds no
\* raw "<" or ">", hence no marker of any stage, and it is a function of
\* the raw form alone, whatever diff, unit, search_match and match are.
C1_CopyIsEscapedForm ==
    \A k \in 1..Len(parts) :
        LET copy == parts[k].copy
        IN  /\ copy = Escape(plurals[k])
            /\ Unescape(copy) = plurals[k]
            /\ \A i \in 1..Len(copy) : copy[i] \notin {"<", ">"}
            /\ \A t \in MarkerTags : ~Contains(copy, t)

\* A form holding "<" and "&" rendered with a diff, a unit and a search
\* term, whose content differs from its copy
C1_Witness ==
    /\ pc = "done"
    /\ diff # None /\ unit # None /\ search_match # None
    /\ \E k \in 1..Len(parts) :
        /\ Contains(plurals[k], <<"<">>) /\ Contains(plurals[k], <<"&">>)
        /\ parts[k].content # parts[k].copy
        /\ parts[k].copy = Escape(plurals[k])

\* C4 (as claimed): the markup the defect and search stages insert is
\* intact in the final content: every "<" of the content opens a whole
\* marker tag and the spans are balanced.  Stated for calls without a diff
\* reference.
C4_MarkupIntact ==
    diff = None => \A k \in 1..Len(parts) : WellFormedMarkup(parts[k].content)

\* C5 (as claimed): the escaped text stays intact in the content: every "&"
\* of the content opens a whole entity, no marker stands inside one.  Stated
\* for calls without a diff reference.
C5_EntitiesIntact ==
    diff = None => \A k \in 1..Len(parts) : EntitiesIntact(parts[k].content)

\* C9 (as claimed): the newline concatenator holds the line break "<br />"
\* and the label "New line", and so does the content of every part whose
\* form holds a line separator.
C9_NewlineMarkerLabelled ==
    /\ pc # "begin" =>
        Contains(newline, <<"<","b","r"," ","/",">">>) /\ Contains(newline, Ugettext(<<"N","e","w"," ","l","i","n","e">>))
    /\ \A k \in 1..Len(parts) :
        Contains(plurals[k], <<"\n">>) =>
            /\ Contains(parts[k].content, <<"<","b","r"," ","/",">">>)
            /\ Contains(parts[k].content, Ugettext(<<"N","e","w"," ","l","i","n","e">>))

\* The parts returned are those of the retained forms, in order, titled
\* only when several forms are retained
PartsFollowForms ==
    LET forms == split_plural(value)
    IN  /\ Len(parts) >= 1
        /\ num_plurals <= 1 =>
            /\ Len(parts) = 1
            /\ parts[1].title = <<>>
            /\ parts[1].copy = Escape(forms[Len(forms)])
        /\ num_plurals > 1 =>
            /\ Len(parts) = Len(forms)
            /\ \A k \in 1..Len(forms) :
                /\ parts[k].copy = Escape(forms[k])
                /\ parts[k].title =
                     (IF Len(forms) > 1 THEN get_plural_name(k - 1) ELSE <<>>)

\* C10 (as claimed): one part per retained form, in order, never none; with
\* num_plurals <= 1 the single part of the last form, untitled; and for the
\* raw value "" exactly one part with empty content and empty copy.
C10_PartsAsClaimed ==
    pc = "done" =>
        /\ PartsFollowForms
        /\ value = <<>> =>
            /\ Len(parts) = 1
            /\ parts[1].content = <<>>
            /\ parts[1].copy = <<>>

\* C10 (amended): as claimed, but for the raw value "" the content is empty
\* when no diff reference is given or the first form of the reference is
\* empty too; the copy is empty in every case.
C10_PartsPerForm ==
    pc = "done" =>
        /\ PartsFollowForms
        /\ value = <<>> =>
            /\ Len(parts) = 1
            /\ parts[1].copy = <<>>
            /\ (diff = None \/ split_plural(diff[1])[1] = <<>>) =>
                    parts[1].content = <<>>

\* The raw value "" rendered with a unit and a search term
C10_Witness ==
    /\ pc = "done"
    /\ value = <<>> /\ unit # None /\ search_match # None
    /\ Len(parts) = 1 /\ parts[1].content = <<>>

\* C6: once the reference is aligned, with N forms rendered and a
\* reference of M forms: for M < N it has N forms, the first M unchanged
\* and the others equal to reference form 0; for M >= N it is unchanged.
\* While padding the reference is never empty and never longer than
\* needed, and every iteration brings its length closer to N.
C6_AlignedState ==
    diff # None /\ pc \in {"pad", "render", "done"} =>
        LET ref == split_plural(diff[1])
            M   == Len(ref)
            N   == Len(plurals)
        IN  /\ diff_forms # <<>>
            /\ Len(diff_forms) <= (IF M < N THEN N ELSE M)
            /\ pc \in {"render", "done"} /\ M < N =>
                /\ Len(diff_forms) = N
                /\ \A j \in 1..M : diff_forms[j] = ref[j]
                /\ \A j \in (M + 1)..N : diff_forms[j] = ref[1]
            /\ pc \in {"render", "done"} /\ M >= N => diff_forms = ref

C6_PaddingStep ==
    pc = "pad" /\ pc' = "pad" =>
        Len(plurals) - Len(diff_forms') < Len(plurals) - Len(diff_forms)

C6_ReferenceAligned == [](C6_AlignedState) /\ [][C6_PaddingStep]_vars

\* Three forms rendered against a reference of two different forms
C6_Witness ==
    /\ pc = "done"
    /\ diff # None
    /\ Len(plurals) = 3
    /\ Len(split_plural(diff[1])) = 2
    /\ split_plural(diff[1])[1] # split_plural(diff[1])[2]
    /\ diff_forms[3] = split_plural(diff[1])[1]

\* ------------------------------------------------------------------------
\* Properties of fmt_highlights
\* ------------------------------------------------------------------------

HlCheckOpen == <<"<","s","p","a","n"," ","c","l","a","s","s","=","\"","h","l","c","h","e","c","k","\"",">","<","s","p","a","n"," ","c","l","a","s","s","=","\"","h","i","g","h","l","i","g","h","t","-","n","u","m","b","e","r","\"",">","<","/","s","p","a","n",">">>
SpanClose == <<"<","/","s","p","a","n",">">>

\* The visited highlights that were found, in order
Marks == LET Found(e) == e.at >= 0 IN SelectSeq(hl_log, Found)

\* The marker a found highlight was wrapped in, and where it ends
MarkerOf(e) == HlCheckOpen \o Escape(e.text) \o SpanClose
MarkEnd(e) == e.at + Len(MarkerOf(e))

\* The escaped snippet occurs twice, one occurrence behind the other
OccursTwice(v, snippet) ==
    LET h     == Escape(snippet)
        first == Find(v, h, 0)
    IN  first >= 0 /\ Find(v, h, first + Len(h)) >= 0

C2_CursorState ==
    /\ start_search = (IF Marks = <<>> THEN 0 ELSE MarkEnd(Marks[Len(Marks)]))
    /\ \A j \in 1..Len(Marks) :
        /\ MarkEnd(Marks[j]) <= Len(hl_value)
        /\ Slice(hl_value, Marks[j].at, MarkEnd(Marks[j])) = MarkerOf(Marks[j])
    /\ \A j \in 1..(Len(Marks) - 1) : MarkEnd(Marks[j]) <= Marks[j + 1].at
    /\ hl_pc = "done" /\ hl_unit # None =>
        LET looked == highlight_string(hl_raw_value, hl_unit[1])
        IN  Len(looked) = 2 /\ looked[1] = looked[2] /\ OccursTwice(hl_input, looked[1])
                => Len(Marks) = 2 /\ Marks[1].at < Marks[2].at

C2_CursorStep == start_search' >= start_search

\* C2: the cursor of fmt_highlights never decreases; it is 0 until a
\* snippet is found and then the end of the marker inserted last; each
\* marker stands whole in the value, and each starts at or after the end of
\* the one before, so the markers are disjoint and never nested; two equal
\* snippets whose text occurs twice get two separate markers.
C2_CursorMonotone == [](C2_CursorState) /\ [][C2_CursorStep]_vars

\* Two equal snippets, both found and wrapped
C2_Witness ==
    /\ hl_pc = "done"
    /\ Len(hl_log) = 2
    /\ hl_log[1].text = hl_log[2].text
    /\ hl_log[1].at >= 0 /\ hl_log[2].at > hl_log[1].at

C3_SkipStep ==
    (/\ hl_pc = "loop"
     /\ highlights # <<>>
     /\ Find(hl_value, Escape(Head(highlights)), start_search) < 0)
    => /\ hl_value' = hl_value
       /\ start_search' = start_search
       /\ highlights' = Tail(highlights)
       /\ hl_pc' = "loop"
       /\ hl_log' = Append(hl_log, [text |-> Head(highlights), at |-> -1])

\* C3: a snippet whose escaped text does not occur at or after the cursor
\* leaves the value and the cursor as they are, also when it occurs before
\* the cursor, and the loop goes on with the next snippet.
C3_SkipLeavesValue == [][C3_SkipStep]_vars

\* A snippet that occurs in the value passed in, only before the cursor, is
\* skipped, and a later snippet is still found
C3_Witness ==
    /\ hl_pc = "done"
    /\ \E j \in 1..Len(hl_log) :
        /\ hl_log[j].at = -1
        /\ Contains(hl_input, Escape(hl_log[j].text))
        /\ \E k \in (j + 1)..Len(hl_log) : hl_log[k].at >= 0

\* ------------------------------------------------------------------------
\* Properties of fmt_search
\* ------------------------------------------------------------------------

RECURSIVE Flatten(_)
Flatten(seqs) == IF seqs = <<>> THEN <<>> ELSE Head(seqs) \o Flatten(Tail(seqs))

\* The term t occurs in v at the 0-based position p, case ignored or not
OccursAt(v, t, p, ignore_case) ==
    /\ p + Len(t) <= Len(v)
    /\ IF ignore_case
       THEN LowerStr(Slice(v, p, p + Len(t))) = LowerStr(t)
       ELSE Slice(v, p, p + Len(t)) = t

\* The non-overlapping occurrences of t in v, taken from left to right
RECURSIVE Taken(_, _, _, _)
Taken(v, t, p, ignore_case) ==
    IF p + Len(t) > Len(v) THEN {}
    ELSE IF OccursAt(v, t, p, ignore_case)
    THEN {p} \cup Taken(v, t, p + Len(t), ignore_case)
    ELSE Taken(v, t, p + 1, ignore_case)

\* v with the text of length n at each position of at wrapped in open and
\* close, and nothing else changed
Wrapped(v, at, n, open, close) ==
    Flatten([i \in 1..Len(v) |->
        IF (i - 1) \in at THEN open \o Slice(v, i - 1, i - 1 + n) \o close
        ELSE IF \E q \in at : q < i - 1 /\ i - 1 < q + n THEN <<>>
        ELSE <<v[i]>>])

ModeOpen(m) ==
    IF m = MODE_REPLACEMENT THEN <<"<","s","p","a","n"," ","c","l","a","s","s","=","\"","r","e","p","l","a","c","e","m","e","n","t","\"",">">>
    ELSE <<"<","s","p","a","n"," ","c","l","a","s","s","=","\"","r","e","p","l","a","c","e","d","\"",">">>

\* C7: for a non-empty term, mode search wraps every non-overlapping
\* occurrence of the escaped term, case ignored, in an hlmatch marker
\* around the text as the value has it; the modes replacement and replaced
\* wrap the occurrences with the exact case, all of them, in a marker of
\* the class of the mode, and leave the others.
C7_SearchWraps ==
    fs_pc = "done" /\ fs_search_match # None /\ fs_search_match[1] # <<>> =>
        LET term == Escape(fs_search_match[1])
        IN  /\ fs_match = MODE_SEARCH =>
                fs_result = Wrapped(fs_value, Taken(fs_value, term, 0, TRUE),
                                    Len(term), <<"<","s","p","a","n"," ","c","l","a","s","s","=","\"","h","l","m","a","t","c","h","\"",">">>, SpanClose)
            /\ fs_match \in {MODE_REPLACEMENT, MODE_REPLACED} =>
                fs_result = Wrapped(fs_value, Taken(fs_value, term, 0, FALSE),
                                    Len(term), ModeOpen(fs_match), SpanClose)

\* Mode search wraps an occurrence that differs from the term in case
C7_Witness ==
    /\ fs_pc = "done"
    /\ fs_match = MODE_SEARCH
    /\ fs_search_match = Some(<<"a">>)
    /\ fs_value = <<"A","a">>
    /\ fs_result = <<"<","s","p","a","n"," ","c","l","a","s","s","=","\"","h","l","m","a","t","c","h","\"",">","A","<","/","s","p","a","n",">","<","s","p","a","n"," ","c","l","a","s","s","=","\"","h","l","m","a","t","c","h","\"",">","a","<","/","s","p","a","n",">">>

\* ------------------------------------------------------------------------
\* Properties of fmt_whitespace
\* ------------------------------------------------------------------------

SpaceMarker == <<"<","s","p","a","n"," ","c","l","a","s","s","=","\"","s","p","a","c","e","-","s","p","a","c","e","\"",">","<","s","p","a","n"," ","c","l","a","s","s","=","\"","s","r","-","o","n","l","y","\"",">"," ","<","/","s","p","a","n",">","<","/","s","p","a","n",">">>
TabMarker ==
    <<"<","s","p","a","n"," ","c","l","a","s","s","=","\"","h","l","s","p","a","c","e","\"",">","<","s","p","a","n"," ","c","l","a","s","s","=","\"","s","p","a","c","e","-","t","a","b","\"",">","<","s","p","a","n"," ","c","l","a","s","s","=","\"","s","r","-","o","n","l","y","\"",">","\t","<","/","s","p","a","n",">","<","/","s","p","a","n",">","<","/","s","p","a","n",">">>

IsSpace(v, i) == i >= 1 /\ i <= Len(v) /\ v[i] = " "

\* The space at the 1-based position i is in a run of two or more spaces,
\* or is the first or the last character of the paragraph
MarkedSpace(v, i) ==
    /\ IsSpace(v, i)
    /\ \/ IsSpace(v, i - 1) \/ IsSpace(v, i + 1)
       \/ i = 1
       \/ i = Len(v)

\* What the character at i becomes: a marked space its marker, inside the
\* one hlspace span of its run; a tab the tab marker; any other character
\* itself
Shown(v, i) ==
    IF MarkedSpace(v, i)
    THEN (IF IsSpace(v, i - 1) THEN <<>> ELSE <<"<","s","p","a","n"," ","c","l","a","s","s","=","\"","h","l","s","p","a","c","e","\"",">">>)
         \o SpaceMarker
         \o (IF IsSpace(v, i + 1) THEN <<>> ELSE SpanClose)
    ELSE IF v[i] = "\t" THEN TabMarker
    ELSE <<v[i]>>

\* C8: in a paragraph, a space is replaced by the space marker exactly when
\* it is in a run of two or more spaces or is a single space at the very
\* start or the very end; each such run is inside one hlspace span, with one
\* marker per space; the other spaces stay; each tab becomes one tab marker.
C8_WhitespaceMarked ==
    ws_pc = "done" =>
        ws_result = Flatten([i \in 1..Len(ws_value) |-> Shown(ws_value, i)])

\* "a  b": one marked run of two spaces
C8_Witness ==
    /\ ws_pc = "done"
    /\ ws_value = <<"a"," "," ","b">>
    /\ ws_result = <<"a","<","s","p","a","n"," ","c","l","a","s","s","=","\"","h","l","s","p","a","c","e","\"",">">> \o SpaceMarker \o SpaceMarker \o <<"<","/","s","p","a","n",">","b">>

\* ------------------------------------------------------------------------
\* Properties of the annotation stages together
\* ------------------------------------------------------------------------

\* C11: a stage whose optional input is absent returns its value as it
\* got it: fmt_diff when diff is None, fmt_highlights when no unit is given
\* or the lookup flags no snippet, fmt_search when the term is None or
\* empty, whatever the mode.
C11_AbsentInputIdentity ==
    /\ df_pc = "done" /\ df_diff = None => df_result = df_value
    /\ hl_pc = "done" /\ hl_unit = None => hl_value = hl_input
    /\ hl_pc = "done" /\ hl_unit # None
            /\ highlight_string(hl_raw_value, hl_unit[1]) = <<>>
        => hl_value = hl_input
    /\ fs_pc = "done" /\ (fs_search_match = None \/ fs_search_match[1] = <<>>)
        => fs_result = fs_value

\* fmt_search called with the empty term in mode replaced on a non-empty
\* value
C11_Witness ==
    /\ fs_pc = "done"
    /\ fs_search_match = Some(<<>>)
    /\ fs_match = MODE_REPLACED
    /\ fs_value # <<>>
    /\ fs_result = fs_value

\* ------------------------------------------------------------------------
\* Properties of the line splitting of format_translation
\* ------------------------------------------------------------------------

\* The value of form k after the diff, defect and search stages
Annotated(k) ==
    fmt_search(
        fmt_highlights(plurals[k],
            fmt_diff(Escape(plurals[k]),
                     IF diff = None THEN None ELSE Some(diff_forms), k - 1),
            unit),
        search_match, match)

\* The 1-based positions of s where a line separator starts: every carriage
\* return, and every line feed that does not follow a carriage return
SepStarts(s) ==
    {p \in 1..Len(s) :
        \/ s[p] = "\r"
        \/ s[p] = "\n" /\ ~(p > 1 /\ s[p - 1] = "\r")}

\* The position after the separator that starts at p
SepEnd(s, p) ==
    IF s[p] = "\r" /\ p < Len(s) /\ s[p + 1] = "\n" THEN p + 2 ELSE p + 1

\* The j-th separator of s, from the left
NthSep(s, j) ==
    CHOOSE p \in SepStarts(s) : Cardinality({q \in SepStarts(s) : q < p}) = j - 1

\* The texts before, between and after the separators of s, in order
Paragraphs(s) ==
    LET n == Cardinality(SepStarts(s))
    IN  [j \in 1..(n + 1) |->
            LET from == IF j = 1 THEN 1 ELSE SepEnd(s, NthSep(s, j - 1))
                to   == IF j = n + 1 THEN Len(s) ELSE NthSep(s, j) - 1
            IN  SubSeq(s, from, to)]

\* C12: CRLF, a lone CR and a lone LF each count as one separator; the
\* annotated value of a form with n separators is split into its n + 1
\* paragraphs, empty ones included, in order, and the content of the part
\* is the whitespace-formatted paragraphs joined by exactly n line-break
\* markers.
C12_LinesLossless ==
    \A k \in 1..Len(parts) :
        LET a     == Annotated(k)
            n     == Cardinality(SepStarts(a))
            paras == Paragraphs(a)
        IN  /\ Split(NewlinesSub(a), <<"\n">>) = paras
            /\ Len(paras) = n + 1
            /\ parts[k].content =
                 Join(NewlineConcatenator,
                      [j \in 1..(n + 1) |-> fmt_whitespace(paras[j])])
            /\ Occurrences(parts[k].content, <<"<","b","r"," ","/",">">>) = n

\* A form with a CRLF pair followed by a lone separator: two separators,
\* three paragraphs of which one is empty, two line-break markers
C12_Witness ==
    /\ pc = "done"
    /\ \E k \in 1..Len(parts) :
        LET a == Annotated(k)
        IN  /\ Contains(plurals[k], <<"\r","\n">>)
            /\ Contains(a, <<"\r","\n">>)
            /\ Cardinality(SepStarts(a)) = 2
            /\ \E j \in 1..3 : Paragraphs(a)[j] = <<>>
            /\ Occurrences(parts[k].content, <<"<","b","r"," ","/",">">>) = 2

\* ------------------------------------------------------------------------
\* Properties of the markers of fmt_highlights and fmt_search
\* ------------------------------------------------------------------------

\* s without the occurrences of t
Strip(s, t) == Replace(s, t, <<>>)

\* The opening tag fmt_search inserts in mode m
SearchOpen(m) == IF m = MODE_SEARCH THEN <<"<","s","p","a","n"," ","c","l","a","s","s","=","\"","h","l","m","a","t","c","h","\"",">">> ELSE ModeOpen(m)

\* C13: the markers of fmt_highlights and fmt_search only wrap text: the
\* value of fmt_highlights without the opening and closing texts of the
\* defect markers is its input, after every iteration and at its return,
\* and the result of fmt_search without the opening and closing tags of
\* the search markers is its input, character for character.
C13_MarkersOnlyWrap ==
    /\ hl_pc # "idle" => Strip(Strip(hl_value, HlCheckOpen), SpanClose) = hl_input
    /\ fs_pc = "done" =>
        Strip(Strip(fs_result, SearchOpen(fs_match)), SpanClose) = fs_value

\* Mode search marks two occurrences of the term that differ in case, one
\* of them not in the case of the term
C13_Witness ==
    /\ fs_pc = "done"
    /\ fs_match = MODE_SEARCH
    /\ fs_search_match = Some(<<"a">>)
    /\ Contains(fs_value, <<"A">>) /\ Contains(fs_value, <<"a">>)
    /\ Occurrences(fs_result, SearchOpen(MODE_SEARCH)) = 2
    /\ Strip(Strip(fs_result, SearchOpen(MODE_SEARCH)), SpanClose) = fs_value

====
